---- MODULE Spec2Model ----
(***************************************************************************)
(* Credit ledger and exam sessions of the exam platform: the Stripe        *)
(* webhook that credits a purchase, the admin refund endpoint, the exam    *)
(* start endpoint with its credit restore, the three exam submit           *)
(* endpoints, and the grading functions of the objective exam types.       *)
(* Every request is an invocation running on one of NumProcs concurrent    *)
(* slots; each await that touches the store, the payment processor or the  *)
(* grading collaborator is one step, and a db.$transaction is one atomic   *)
(* step that either commits all of its writes or none.                     *)
(***************************************************************************)
EXTENDS Integers, Sequences, FiniteSets, TLC

VARIABLES
    credits,        \* User.credits, per user
    ledger,         \* CreditTransaction rows, in creation order (id = index)
    exams,          \* ExamHistory rows, in creation order
    published,      \* content items with isPublished = true
    pc,             \* per slot: where the invocation stands
    loc,            \* per slot: the invocation's inputs and local variables
    requests,       \* number of invocations started so far
    reversalCalls,  \* per payment intent: calls of stripe.refunds.create
    reversalsOk,    \* per payment intent: calls of it that succeeded
    credited,       \* per payment intent: credits added by the webhook
    call,           \* a call of a grading function: its arguments and result
    rateLimitStore, \* per identifier: the entry of the in-memory rate-limit map
    now,            \* Date.now(), in milliseconds
    rateResult,     \* the identifier and the return value of the last rateLimit call
    granted,        \* per identifier: the window of the last success and the
                    \* number of successes of that window
    sessions,       \* per session id: the Session row
    issued          \* number of refresh tokens signed so far

vars == <<credits, ledger, exams, published, pc, loc, requests,
          reversalCalls, reversalsOk, credited, call,
          rateLimitStore, now, rateResult, granted, sessions, issued>>

----------------------------------------------------------------------------
(* Bounds of the model *)

NumProcs == 2

MaxRequests == 3

Procs == 1..NumProcs

----------------------------------------------------------------------------
(* Fixed data *)

Users == {"u1", "u2"}

Role(u) == IF u = "u2" THEN "ADMIN" ELSE "USER"

NoRef == "none"

Refs == {"pi_abc", "pi_xyz", "pi_bad"}

PackIds == {"pack_a", "pack_b", "pack_c"}

NoPack == [id |-> "null", name |-> "", credits |-> 0]

CREDIT_PACKS ==
    [k \in PackIds |->
        CASE k = "pack_a" -> [id |-> "pack_a", name |-> "Pack A - Starter", credits |-> 2]
          [] k = "pack_b" -> [id |-> "pack_b", name |-> "Pack B - Standard", credits |-> 5]
          [] k = "pack_c" -> [id |-> "pack_c", name |-> "Pack C - Premium", credits |-> 15]]

getCreditPackById(packId) ==
    IF packId \in PackIds THEN CREDIT_PACKS[packId] ELSE NoPack

\* The webhook events Stripe can deliver (metadata is fixed per checkout
\* session, so every redelivery of an event is identical).  "" is a missing
\* field.
Events ==
    { [type |-> "checkout.session.completed", userId |-> "u1", packId |-> "pack_b",
       payment_intent |-> "pi_abc"],
      [type |-> "checkout.session.completed", userId |-> "u2", packId |-> "pack_a",
       payment_intent |-> "pi_xyz"],
      [type |-> "checkout.session.completed", userId |-> "u1", packId |-> "pack_z",
       payment_intent |-> "pi_bad"],
      [type |-> "checkout.session.completed", userId |-> "", packId |-> "pack_a",
       payment_intent |-> "pi_abc"],
      [type |-> "payment_intent.created", userId |-> "u1", packId |-> "pack_a",
       payment_intent |-> "pi_abc"] }

NoEvent == [type |-> "", userId |-> "", packId |-> "", payment_intent |-> ""]

ExamTypes == {"READING", "LISTENING", "WRITING", "SPEAKING"}

ContentItems ==
    { [id |-> "rp1", kind |-> "READING", part |-> 0],
      [id |-> "la1", kind |-> "LISTENING", part |-> 0],
      [id |-> "wp1", kind |-> "WRITING", part |-> 0],
      [id |-> "sq1", kind |-> "SPEAKING", part |-> 1],
      [id |-> "sq2", kind |-> "SPEAKING", part |-> 2],
      [id |-> "sq3", kind |-> "SPEAKING", part |-> 3] }

\* The catalogues the runs start from: everything published, or only a
\* reading passage and speaking parts 1 and 2.
Catalogues ==
    { ContentItems,
      {c \in ContentItems : c.id \in {"rp1", "sq1", "sq2"}} }

----------------------------------------------------------------------------
(* JSON values, and the string operations the answer comparison uses.  A     *)
(* string is its sequence of characters; a value carries its type in t and  *)
(* its content in the field of that type (b, n, s, or a for an array of     *)
(* strings), the other fields being empty.                                  *)

MaxArrayLen == 2

MaxQuestions == 4

JsNull == [t |-> "null", b |-> FALSE, n |-> 0, s |-> <<>>, a |-> <<>>]

JsUndefined == [JsNull EXCEPT !.t = "undefined"]

JsObject == [JsNull EXCEPT !.t = "object"]

JsBool(b) == [JsNull EXCEPT !.t = "boolean", !.b = b]

JsNum(n) == [JsNull EXCEPT !.t = "number", !.n = n]

JsStr(s) == [JsNull EXCEPT !.t = "string", !.s = s]

JsArr(a) == [JsNull EXCEPT !.t = "array", !.a = a]

\* String.prototype.toLowerCase, on the letters the inputs use.
UpperToLower ==
    [c \in {"A", "E", "F", "P", "R", "T", "U"} |->
        CASE c = "A" -> "a" [] c = "E" -> "e" [] c = "F" -> "f" [] c = "P" -> "p"
          [] c = "R" -> "r" [] c = "T" -> "t" [] c = "U" -> "u"]

toLowerCase(s) ==
    [i \in 1..Len(s) |-> IF s[i] \in DOMAIN UpperToLower THEN UpperToLower[s[i]] ELSE s[i]]

RECURSIVE trimStart(_)
trimStart(s) == IF s # <<>> /\ Head(s) = " " THEN trimStart(Tail(s)) ELSE s

RECURSIVE trimEnd(_)
trimEnd(s) ==
    IF s # <<>> /\ s[Len(s)] = " " THEN trimEnd(SubSeq(s, 1, Len(s) - 1)) ELSE s

\* String.prototype.trim
trim(s) == trimEnd(trimStart(s))

Digits == <<"0", "1", "2", "3", "4", "5", "6", "7", "8", "9">>

RECURSIVE NumberToString(_)
NumberToString(n) ==
    IF n < 0 THEN <<"-">> \o NumberToString(0 - n)
    ELSE IF n < 10 THEN <<Digits[n + 1]>>
    ELSE NumberToString(n \div 10) \o <<Digits[(n % 10) + 1]>>

\* Array.prototype.join(","), which String() applies to an array.
RECURSIVE Join(_)
Join(a) ==
    IF a = <<>> THEN <<>>
    ELSE IF Len(a) = 1 THEN a[1]
    ELSE a[1] \o <<",">> \o Join(Tail(a))

\* String(value)
String(v) ==
    CASE v.t = "string" -> v.s
      [] v.t = "boolean" -> IF v.b THEN <<"t", "r", "u", "e">> ELSE <<"f", "a", "l", "s", "e">>
      [] v.t = "number" -> NumberToString(v.n)
      [] v.t = "array" -> Join(v.a)
      [] v.t = "null" -> <<"n", "u", "l", "l">>
      [] v.t = "undefined" -> <<"u", "n", "d", "e", "f", "i", "n", "e", "d">>
      [] v.t = "object" ->
            <<"[", "o", "b", "j", "e", "c", "t", " ", "O", "b", "j", "e", "c", "t", "]">>

\* Array.prototype.includes on an array of strings: the element must be the
\* very same string.
includes(a, val) == \E i \in 1..Len(a) : a[i] = val

\* The strings the answers are made of.
Str_paris == <<"p", "a", "r", "i", "s">>

Str_Paris == <<"P", "a", "r", "i", "s">>

Str_Paris_padded == <<" ", "P", "a", "r", "i", "s", " ">>

Str_france == <<"f", "r", "a", "n", "c", "e">>

Str_France == <<"F", "r", "a", "n", "c", "e">>

Str_true == <<"t", "r", "u", "e">>

Str_TRUE == <<"T", "R", "U", "E">>

Str_true_padded == <<" ", "t", "r", "u", "e">>

Str_false == <<"f", "a", "l", "s", "e">>

Str_1 == <<"1">>

----------------------------------------------------------------------------
(* Grading of the objective exam types: src/unnamed/part_011 *)

\* Mutant of compareAnswers: a string submitted for a boolean answer is
\* compared as it stands, without lower-casing.
compareAnswers_ExactBoolean(userAnswer, correctAnswer) ==
    IF userAnswer.t \in {"null", "undefined"} THEN FALSE
    ELSE IF correctAnswer.t = "array"
    THEN /\ userAnswer.t = "array"
         /\ Len(correctAnswer.a) = Len(userAnswer.a)
         /\ \A i \in 1..Len(correctAnswer.a) : includes(userAnswer.a, correctAnswer.a[i])
    ELSE IF correctAnswer.t = "string"
    THEN toLowerCase(trim(String(userAnswer))) = toLowerCase(trim(correctAnswer.s))
    ELSE IF correctAnswer.t = "boolean"
    THEN IF userAnswer.t = "boolean" THEN userAnswer.b = correctAnswer.b
         ELSE IF userAnswer.t = "string"
         THEN userAnswer.s = String(correctAnswer)
         ELSE FALSE
    ELSE FALSE

compareAnswers(userAnswer, correctAnswer) ==
    IF userAnswer.t \in {"null", "undefined"} THEN FALSE
    ELSE IF correctAnswer.t = "array"
    THEN /\ userAnswer.t = "array"
         /\ Len(correctAnswer.a) = Len(userAnswer.a)
         /\ \A i \in 1..Len(correctAnswer.a) : includes(userAnswer.a, correctAnswer.a[i])
    ELSE IF correctAnswer.t = "string"
    THEN toLowerCase(trim(String(userAnswer))) = toLowerCase(trim(correctAnswer.s))
    ELSE IF correctAnswer.t = "boolean"
    THEN IF userAnswer.t = "boolean" THEN userAnswer.b = correctAnswer.b
         ELSE IF userAnswer.t = "string"
         THEN toLowerCase(userAnswer.s) = toLowerCase(String(correctAnswer))
         ELSE FALSE
    ELSE FALSE

\* A percentage is the exact fraction n / d; band scores are in tenths of a
\* band (7.5 is 75).
Percentage(correctCount, totalQuestions) ==
    IF totalQuestions > 0 THEN [n |-> correctCount * 100, d |-> totalQuestions]
    ELSE [n |-> 0, d |-> 1]

AtLeast(percentage, k) == percentage.n >= k * percentage.d

Above(percentage, k) == percentage.n > k * percentage.d

\* Mutant of calculateBandScore: the thresholds are strict.
calculateBandScore_Strict(percentage) ==
    IF AtLeast(percentage, 100) THEN 90
    ELSE IF Above(percentage, 90) THEN 85
    ELSE IF Above(percentage, 80) THEN 80
    ELSE IF Above(percentage, 70) THEN 75
    ELSE IF Above(percentage, 60) THEN 70
    ELSE IF Above(percentage, 50) THEN 65
    ELSE IF Above(percentage, 40) THEN 60
    ELSE IF Above(percentage, 30) THEN 55
    ELSE IF Above(percentage, 20) THEN 50
    ELSE IF Above(percentage, 10) THEN 45
    ELSE IF percentage.n > 0 THEN 40
    ELSE 0

calculateBandScore(percentage) ==
    IF AtLeast(percentage, 100) THEN 90
    ELSE IF AtLeast(percentage, 90) THEN 85
    ELSE IF AtLeast(percentage, 80) THEN 80
    ELSE IF AtLeast(percentage, 70) THEN 75
    ELSE IF AtLeast(percentage, 60) THEN 70
    ELSE IF AtLeast(percentage, 50) THEN 65
    ELSE IF AtLeast(percentage, 40) THEN 60
    ELSE IF AtLeast(percentage, 30) THEN 55
    ELSE IF AtLeast(percentage, 20) THEN 50
    ELSE IF AtLeast(percentage, 10) THEN 45
    ELSE IF percentage.n > 0 THEN 40
    ELSE 0

----------------------------------------------------------------------------
(* The store *)

\* A null score; scores are in tenths of a band.
NoScore == -1

\* No answers stored; stored answers are named by the submission they came in.
NoAnswers == "none"

NoTxn == [userId |-> "", amount |-> 0, type |-> "", ref |-> NoRef, reason |-> ""]

RECURSIVE SumAmounts(_, _)
SumAmounts(u, s) ==
    IF s = <<>> THEN 0
    ELSE (IF Head(s).userId = u THEN Head(s).amount ELSE 0) + SumAmounts(u, Tail(s))

\* db.creditTransaction.findUnique({ where: { stripePaymentIntentId } })
EntriesByRef(ref) == {i \in 1..Len(ledger) : ledger[i].ref = ref}

\* Mutant of UniqueRefOK: the column has no unique index.
UniqueRefOK_NoIndex(entry) == TRUE

\* The unique index on CreditTransaction.stripePaymentIntentId (the column
\* findUnique looks rows up by): an insert carrying a payment intent id that
\* some row already carries is rejected.
UniqueRefOK(entry) ==
    entry.ref = NoRef \/ EntriesByRef(entry.ref) = {}

\* db.creditTransaction.findFirst({ where: { stripePaymentIntentId, type: 'REFUND' } })
RefundEntries(ref) == {i \in EntriesByRef(ref) : ledger[i].type = "REFUND"}

----------------------------------------------------------------------------
(* Invocations *)

NoLoc ==
    [handler |-> "none", caller |-> "", event |-> NoEvent, tid |-> 0,
     txn |-> NoTxn, pack |-> NoPack, examType |-> "", stripe |-> "none",
     status |-> 0, error |-> "", afterReversal |-> FALSE, net |-> 0,
     examId |-> 0, answers |-> NoAnswers, score |-> NoScore, subScores |-> <<>>,
     grading |-> "none", refreshToken |-> 0, sessionId |-> 0, newRefreshToken |-> 0]

NoCall ==
    [fn |-> "none", userAnswer |-> JsNull, correctAnswer |-> JsNull,
     percentage |-> [n |-> 0, d |-> 1], done |-> FALSE, verdict |-> FALSE, band |-> 0]

\* The identifiers the login and the forgot-password handlers limit by.
Identifiers == {"login:ip1:a@x", "forgot-password:ip1:a@x"}

NoEntry == [count |-> 0, resetTime |-> 0]

NoResult == [identifier |-> "", success |-> FALSE, remaining |-> 0, resetTime |-> 0]

\* The rate-limit map is empty: nothing has called rateLimit yet.
RateIdle ==
    /\ rateLimitStore = [i \in Identifiers |-> NoEntry]
    /\ now = 0
    /\ rateResult = NoResult
    /\ granted = [i \in Identifiers |-> [resetTime |-> 0, n |-> 0]]

\* The Session table is empty: nobody is logged in.
SessionIds == 1..2

NoSession == [userId |-> "", refreshToken |-> 0, expired |-> FALSE]

NoSessions ==
    /\ sessions = [s \in SessionIds |-> NoSession]
    /\ issued = 0

CanStart(p) == pc[p] \in {"idle", "done"} /\ requests < MaxRequests

\* The invocation on slot p returns a response.
Respond(p, l, status, error) ==
    /\ pc' = [pc EXCEPT ![p] = "done"]
    /\ loc' = [loc EXCEPT ![p] = [l EXCEPT !.status = status, !.error = error]]
    /\ UNCHANGED <<call, rateLimitStore, now, rateResult, granted, sessions, issued>>

\* The invocation on slot p goes on to its next await.
Goto(p, l, label) ==
    /\ pc' = [pc EXCEPT ![p] = label]
    /\ loc' = [loc EXCEPT ![p] = l]
    /\ UNCHANGED <<call, rateLimitStore, now, rateResult, granted, sessions, issued>>

Init ==
    /\ credits = [u \in Users |-> 0]
    /\ ledger = <<>>
    /\ exams = <<>>
    /\ published \in Catalogues
    /\ pc = [p \in Procs |-> "idle"]
    /\ loc = [p \in Procs |-> NoLoc]
    /\ requests = 0
    /\ reversalCalls = [r \in Refs |-> 0]
    /\ reversalsOk = [r \in Refs |-> 0]
    /\ credited = [r \in Refs |-> 0]
    /\ call = NoCall
    /\ RateIdle
    /\ NoSessions

----------------------------------------------------------------------------
(* Stripe webhook: POST and handleCheckoutSessionCompleted *)

\* Mutant of WebhookReceive: the handler does not look the payment intent up
\* before it credits.
WebhookReceive_NoLookup(p, e) ==
    /\ CanStart(p)
    /\ requests' = requests + 1
    /\ LET l == [NoLoc EXCEPT !.handler = "webhook", !.event = e,
                                  !.afterReversal = /\ e.payment_intent \in Refs
                                                    /\ reversalsOk[e.payment_intent] >= 1]
           creditPack == getCreditPackById(e.packId)
       IN  IF e.type # "checkout.session.completed"
           THEN Respond(p, l, 200, "")
           ELSE IF e.userId = "" \/ e.packId = "" \/ e.payment_intent = ""
           THEN Respond(p, l, 200, "invalid metadata")
           ELSE IF creditPack = NoPack
           THEN Respond(p, l, 200, "invalid packId")
           ELSE Goto(p, [l EXCEPT !.pack = creditPack], "wh_tx")
    /\ UNCHANGED <<credits, ledger, exams, published, reversalCalls, reversalsOk, credited>>

\* The request arrives with a verified event; the handler validates the
\* metadata, looks the payment intent up and resolves the pack.
WebhookReceive(p, e) ==
    /\ CanStart(p)
    /\ requests' = requests + 1
    /\ LET l == [NoLoc EXCEPT !.handler = "webhook", !.event = e,
                                  !.afterReversal = /\ e.payment_intent \in Refs
                                                    /\ reversalsOk[e.payment_intent] >= 1]
           creditPack == getCreditPackById(e.packId)
       IN  IF e.type # "checkout.session.completed"
           THEN Respond(p, l, 200, "")
           ELSE IF e.userId = "" \/ e.packId = "" \/ e.payment_intent = ""
           THEN Respond(p, l, 200, "invalid metadata")
           ELSE IF EntriesByRef(e.payment_intent) # {}
           THEN Respond(p, l, 200, "already processed")
           ELSE IF creditPack = NoPack
           THEN Respond(p, l, 200, "invalid packId")
           ELSE Goto(p, [l EXCEPT !.pack = creditPack], "wh_tx")
    /\ UNCHANGED <<credits, ledger, exams, published, reversalCalls, reversalsOk, credited>>

PurchaseEntry(l) ==
    [userId |-> l.event.userId, amount |-> l.pack.credits, type |-> "PURCHASE",
     ref |-> l.event.payment_intent, reason |-> "Purchased " \o l.pack.name]

\* Mutant of WebhookTx: the two writes are not in one transaction, so the
\* increment stays when the insert is rejected.
WebhookTx_NoRollback(p) ==
    /\ pc[p] = "wh_tx"
    /\ LET l == loc[p]
           entry == PurchaseEntry(l)
       IN  /\ credits' = [credits EXCEPT ![entry.userId] = @ + l.pack.credits]
           /\ credited' = [credited EXCEPT ![entry.ref] = @ + l.pack.credits]
           /\ IF UniqueRefOK(entry)
              THEN ledger' = Append(ledger, entry) /\ Respond(p, l, 200, "")
              ELSE UNCHANGED ledger /\ Respond(p, l, 500, "Internal server error")
    /\ UNCHANGED <<exams, published, requests, reversalCalls, reversalsOk>>

\* db.$transaction: increment the credits and create the PURCHASE row; a
\* rejected insert rolls the increment back and the error reaches POST's catch.
WebhookTx(p) ==
    /\ pc[p] = "wh_tx"
    /\ LET l == loc[p]
           entry == PurchaseEntry(l)
       IN  IF UniqueRefOK(entry)
           THEN /\ credits' = [credits EXCEPT ![entry.userId] = @ + l.pack.credits]
                /\ ledger' = Append(ledger, entry)
                /\ credited' = [credited EXCEPT ![entry.ref] = @ + l.pack.credits]
                /\ Respond(p, l, 200, "")
           ELSE /\ UNCHANGED <<credits, ledger, credited>>
                /\ Respond(p, l, 500, "Internal server error")
    /\ UNCHANGED <<exams, published, requests, reversalCalls, reversalsOk>>

----------------------------------------------------------------------------
(* Admin refund: POST /api/payments/refund/[transactionId] *)

RefundInFlight(tid) ==
    \E q \in Procs : /\ loc[q].handler = "refund"
                     /\ loc[q].tid = tid
                     /\ pc[q] \in {"rf_check", "rf_stripe", "rf_tx"}

\* Mutant of RefundLoad: the handler does not check the transaction's type
\* or its payment intent.
RefundLoad_NoTypeCheck(p, caller, tid) ==
    /\ CanStart(p)
    /\ requests' = requests + 1
    /\ LET l == [NoLoc EXCEPT !.handler = "refund", !.caller = caller, !.tid = tid]
       IN  IF Role(caller) # "ADMIN"
           THEN Respond(p, l, 403, "Forbidden")
           ELSE IF tid \notin 1..Len(ledger)
           THEN Respond(p, l, 404, "Transaction not found")
           ELSE Goto(p, [l EXCEPT !.txn = ledger[tid]], "rf_check")
    /\ UNCHANGED <<credits, ledger, exams, published, reversalCalls, reversalsOk, credited>>

\* The request arrives; the handler checks the caller's role, loads the
\* transaction and validates it.
RefundLoad(p, caller, tid) ==
    /\ CanStart(p)
    /\ requests' = requests + 1
    /\ LET l == [NoLoc EXCEPT !.handler = "refund", !.caller = caller, !.tid = tid]
       IN  IF Role(caller) # "ADMIN"
           THEN Respond(p, l, 403, "Forbidden")
           ELSE IF tid \notin 1..Len(ledger)
           THEN Respond(p, l, 404, "Transaction not found")
           ELSE IF ledger[tid].type # "PURCHASE"
           THEN Respond(p, l, 400, "Only PURCHASE transactions can be refunded")
           ELSE IF ledger[tid].ref = NoRef
           THEN Respond(p, l, 400, "No payment intent")
           ELSE Goto(p, [l EXCEPT !.txn = ledger[tid],
                                  !.afterReversal = /\ reversalsOk[ledger[tid].ref] >= 1
                                                    /\ ~RefundInFlight(tid)],
                     "rf_check")
    /\ UNCHANGED <<credits, ledger, exams, published, reversalCalls, reversalsOk, credited>>

\* findFirst for an existing REFUND row of the payment intent.
RefundCheck(p) ==
    /\ pc[p] = "rf_check"
    /\ IF RefundEntries(loc[p].txn.ref) # {}
       THEN Respond(p, loc[p], 400, "Transaction has already been refunded")
       ELSE Goto(p, loc[p], "rf_stripe")
    /\ UNCHANGED <<credits, ledger, exams, published, requests, reversalCalls, reversalsOk, credited>>

\* Mutant of RefundStripe: the credits are deducted before the processor is
\* called, and a failed call leaves them deducted.
RefundStripe_DeductFirst(p) ==
    /\ pc[p] = "rf_stripe"
    /\ LET ref == loc[p].txn.ref
       IN  /\ credits' = [credits EXCEPT ![loc[p].txn.userId] = @ - loc[p].txn.amount]
           /\ reversalCalls' = [reversalCalls EXCEPT ![ref] = @ + 1]
           /\ \/ /\ reversalsOk' = [reversalsOk EXCEPT ![ref] = @ + 1]
                 /\ Goto(p, [loc[p] EXCEPT !.stripe = "ok"], "rf_tx")
              \/ /\ UNCHANGED reversalsOk
                 /\ Respond(p, [loc[p] EXCEPT !.stripe = "failed"], 500,
                            "Failed to process Stripe refund")
    /\ UNCHANGED <<ledger, exams, published, requests, credited>>

\* stripe.refunds.create: the processor reverses the charge or fails.
RefundStripe(p) ==
    /\ pc[p] = "rf_stripe"
    /\ LET ref == loc[p].txn.ref
       IN  /\ reversalCalls' = [reversalCalls EXCEPT ![ref] = @ + 1]
           /\ \/ /\ reversalsOk' = [reversalsOk EXCEPT ![ref] = @ + 1]
                 /\ Goto(p, [loc[p] EXCEPT !.stripe = "ok"], "rf_tx")
              \/ /\ UNCHANGED reversalsOk
                 /\ Respond(p, [loc[p] EXCEPT !.stripe = "failed"], 500,
                            "Failed to process Stripe refund")
    /\ UNCHANGED <<credits, ledger, exams, published, requests, credited>>

RefundEntry(l) ==
    [userId |-> l.txn.userId, amount |-> -l.txn.amount, type |-> "REFUND",
     ref |-> l.txn.ref, reason |-> "Refund of " \o l.txn.reason]

\* Mutant of RefundTx: the refund is recorded by setting the amount of the
\* original row to 0.
RefundTx_EditInPlace(p) ==
    /\ pc[p] = "rf_tx"
    /\ LET l == loc[p]
       IN  /\ credits' = [credits EXCEPT ![l.txn.userId] = @ - l.txn.amount]
           /\ ledger' = [ledger EXCEPT ![l.tid].amount = 0]
           /\ Respond(p, l, 200, "")
    /\ UNCHANGED <<exams, published, requests, reversalCalls, reversalsOk, credited>>

\* db.$transaction: decrement the credits, annotate the original row and
\* create the REFUND row; a rejected insert rolls everything back and the
\* error reaches POST's catch.
RefundTx(p) ==
    /\ pc[p] = "rf_tx"
    /\ LET l == loc[p]
           entry == RefundEntry(l)
       IN  IF UniqueRefOK(entry)
           THEN /\ credits' = [credits EXCEPT ![l.txn.userId] = @ - l.txn.amount]
                /\ ledger' = Append([ledger EXCEPT ![l.tid].reason = l.txn.reason \o " - REFUNDED"],
                                    entry)
                /\ Respond(p, l, 200, "")
           ELSE /\ UNCHANGED <<credits, ledger>>
                /\ Respond(p, l, 500, "Internal server error")
    /\ UNCHANGED <<exams, published, requests, reversalCalls, reversalsOk, credited>>

----------------------------------------------------------------------------
(* Exam start: POST /api/exam/start *)

PublishedOf(kind, part) == {c \in published : c.kind = kind /\ c.part = part}

\* Mutant of Selections: a speaking exam takes its questions from parts 1
\* and 2 only.
Selections_TwoParts(type) ==
    IF type = "SPEAKING"
    THEN { {a.id, b.id} : a \in PublishedOf(type, 1), b \in PublishedOf(type, 2) }
    ELSE { {c.id} : c \in PublishedOf(type, 0) }

\* The selections of content the transaction can make for an exam type: one
\* passage, audio or prompt, or one speaking question of each part.
Selections(type) ==
    IF type = "SPEAKING"
    THEN { {a.id, b.id, c.id} : a \in PublishedOf(type, 1), b \in PublishedOf(type, 2),
                                c \in PublishedOf(type, 3) }
    ELSE { {c.id} : c \in PublishedOf(type, 0) }

\* tx.examHistory.create: the session starts IN_PROGRESS with its content and
\* no score, sub-scores or answers.
NewExam(userId, examType, sel) ==
    [userId |-> userId, examType |-> examType, status |-> "IN_PROGRESS", content |-> sel,
     score |-> NoScore, subScores |-> <<>>, answers |-> NoAnswers]

\* Mutant of StartCheck: the handler does not check the credits.
StartCheck_NoCreditCheck(p, caller, type) ==
    /\ CanStart(p)
    /\ requests' = requests + 1
    /\ Goto(p, [NoLoc EXCEPT !.handler = "startExam", !.caller = caller, !.examType = type],
            "se_tx")
    /\ UNCHANGED <<credits, ledger, exams, published, reversalCalls, reversalsOk, credited>>

\* The request arrives; the handler loads the user and checks the credits.
StartCheck(p, caller, type) ==
    /\ CanStart(p)
    /\ requests' = requests + 1
    /\ LET l == [NoLoc EXCEPT !.handler = "startExam", !.caller = caller, !.examType = type]
       IN  IF credits[caller] < 1
           THEN Respond(p, l, 402, "Insufficient credits")
           ELSE Goto(p, l, "se_tx")
    /\ UNCHANGED <<credits, ledger, exams, published, reversalCalls, reversalsOk, credited>>

UsageEntry(l) ==
    [userId |-> l.caller, amount |-> -1, type |-> "USAGE", ref |-> NoRef,
     reason |-> "Started " \o l.examType \o " exam"]

\* Mutant of StartTx: the writes are not in one transaction, so the ones made
\* before the content selection throws stay.
StartTx_NotAtomic(p) ==
    /\ pc[p] = "se_tx"
    /\ LET l == loc[p]
       IN  /\ credits' = [credits EXCEPT ![l.caller] = @ - 1]
           /\ ledger' = Append(ledger, UsageEntry(l))
           /\ IF Selections(l.examType) # {}
              THEN \E sel \in Selections(l.examType) :
                      /\ exams' = Append(exams, NewExam(l.caller, l.examType, sel))
                      /\ Respond(p, [l EXCEPT !.net = -1], 201, "")
              ELSE /\ UNCHANGED exams
                   /\ Goto(p, [l EXCEPT !.error = "No published content", !.net = -1],
                           "se_restore_credit")
    /\ UNCHANGED <<published, requests, reversalCalls, reversalsOk, credited>>

\* db.$transaction: decrement the credits, create the USAGE row, select the
\* content and create the ExamHistory row; with no published content the
\* transaction throws, rolls back, and the catch block takes over.  The
\* field net of the invocation records what its committed writes have added
\* to the caller's credits so far.
StartTx(p) ==
    /\ pc[p] = "se_tx"
    /\ LET l == loc[p]
       IN  IF Selections(l.examType) # {}
           THEN \E sel \in Selections(l.examType) :
                   /\ credits' = [credits EXCEPT ![l.caller] = @ - 1]
                   /\ ledger' = Append(ledger, UsageEntry(l))
                   /\ exams' = Append(exams, NewExam(l.caller, l.examType, sel))
                   /\ Respond(p, [l EXCEPT !.net = -1], 201, "")
           ELSE /\ UNCHANGED <<credits, ledger, exams>>
                /\ Goto(p, [l EXCEPT !.error = "No published content"], "se_restore_credit")
    /\ UNCHANGED <<published, requests, reversalCalls, reversalsOk, credited>>

\* catch block, first write: db.user.update increments the credits.
RestoreCredit(p) ==
    /\ pc[p] = "se_restore_credit"
    /\ credits' = [credits EXCEPT ![loc[p].caller] = @ + 1]
    /\ Goto(p, [loc[p] EXCEPT !.net = @ + 1], "se_restore_ledger")
    /\ UNCHANGED <<ledger, exams, published, requests, reversalCalls, reversalsOk, credited>>

UsageFailEntry(l) ==
    [userId |-> l.caller, amount |-> 1, type |-> "USAGE_FAIL", ref |-> NoRef,
     reason |-> "Credit restored - no published content available"]

\* catch block, second write: db.creditTransaction.create of the USAGE_FAIL
\* row, then the 503 response.
RestoreLedger(p) ==
    /\ pc[p] = "se_restore_ledger"
    /\ ledger' = Append(ledger, UsageFailEntry(loc[p]))
    /\ Respond(p, loc[p], 503, loc[p].error)
    /\ UNCHANGED <<credits, exams, published, requests, reversalCalls, reversalsOk, credited>>

----------------------------------------------------------------------------

Next ==
    \/ \E p \in Procs, e \in Events : WebhookReceive(p, e)
    \/ \E p \in Procs : WebhookTx(p)
    \/ \E p \in Procs, u \in Users, tid \in 1..(Len(ledger) + 1) : RefundLoad(p, u, tid)
    \/ \E p \in Procs : RefundCheck(p)
    \/ \E p \in Procs : RefundStripe(p)
    \/ \E p \in Procs : RefundTx(p)
    \/ \E p \in Procs, u \in Users, t \in ExamTypes : StartCheck(p, u, t)
    \/ \E p \in Procs : StartTx(p)
    \/ \E p \in Procs : RestoreCredit(p)
    \/ \E p \in Procs : RestoreLedger(p)

Spec == Init /\ [][Next]_vars

----------------------------------------------------------------------------
(* Exam submit: POST /api/exam/submit (objective types, and whatever session *)
(* it is given), /api/exam/writing/submit and /api/exam/speaking/submit.    *)
(* Each handler loads the session and checks it, grades, and then writes    *)
(* the session with db.examHistory.update.                                   *)

\* readingQuestion rows and their correct answers: q1..q4 belong to the
\* passage rp1, qx to another passage.
QuestionBank ==
    [q1 |-> JsStr(Str_paris), q2 |-> JsBool(TRUE),
     q3 |-> JsArr(<<Str_paris, Str_france>>), q4 |-> JsStr(Str_false),
     qx |-> JsStr(Str_1)]

\* The answer sheets a client submits: all four questions of rp1 answered
\* with the last one wrong, only the first three answered, nothing answered.
Sheets == {"sheet_3of4", "sheet_3of3", "sheet_none"}

SheetAnswers(sheet) ==
    LET first3 == { [q |-> "q1", a |-> JsStr(Str_Paris_padded)],
                    [q |-> "q2", a |-> JsStr(Str_TRUE)],
                    [q |-> "q3", a |-> JsArr(<<Str_france, Str_paris>>)] }
    IN  CASE sheet = "sheet_3of4" -> first3 \cup { [q |-> "q4", a |-> JsStr(Str_true)] }
          [] sheet = "sheet_3of3" -> first3
          [] sheet = "sheet_none" -> {}

\* results: one per question that findMany({ id: { in: Object.keys(answers) } })
\* returns.
Results(sheet) == {e \in SheetAnswers(sheet) : e.q \in DOMAIN QuestionBank}

correctCount(sheet) ==
    Cardinality({e \in Results(sheet) : compareAnswers(e.a, QuestionBank[e.q])})

totalQuestions(sheet) == Cardinality(Results(sheet))

\* The essays a client submits, by their number of words.
Essays == {"essay_200", "essay_320"}

wordCount(essay) == CASE essay = "essay_200" -> 200 [] essay = "essay_320" -> 320

\* The recordings a client submits: well-formed data URLs for all three
\* parts, or no audio at all.
Recordings == {"audio_all", "audio_none"}

\* The scores the grading collaborator returns when it answers.
AiScores == {75}

\* prompt.taskType || 'TASK_2' of the session's writing prompt
PromptTaskType(content) == IF "wp1" \in content THEN "TASK_2" ELSE "TASK_1"

\* The catch block of gradeWritingEssayWithFallback: the estimated score.
WritingFallbackScore(taskType, words) ==
    LET s1 == IF words >= 150 /\ taskType = "TASK_1" THEN 60
              ELSE IF words >= 250 /\ taskType = "TASK_2" THEN 60
              ELSE 50
        s2 == IF words >= 250 /\ taskType = "TASK_1" THEN 65
              ELSE IF words >= 300 /\ taskType = "TASK_2" THEN 65
              ELSE s1
    IN  IF words >= 300 /\ taskType = "TASK_1" THEN 70
        ELSE IF words >= 350 /\ taskType = "TASK_2" THEN 70
        ELSE s2

\* The fallback gradingResult of the speaking endpoints: score 5.0.
SpeakingFallbackScore == 50

\* db.examHistory.update({ where: { id }, data: { status: 'COMPLETED', ... } })
CompleteExam(l) ==
    [exams EXCEPT ![l.examId] = [@ EXCEPT !.status = "COMPLETED", !.score = l.score,
                                          !.subScores = l.subScores,
                                          !.answers = l.answers]]

\* Mutant of SubmitLoad: the handler does not compare the session's user
\* with the caller.
SubmitLoad_NoOwnerCheck(p, caller, examId, sheet) ==
    /\ CanStart(p)
    /\ requests' = requests + 1
    /\ LET l == [NoLoc EXCEPT !.handler = "submitExam", !.caller = caller,
                              !.examId = examId]
       IN  IF examId \notin 1..Len(exams)
           THEN Respond(p, l, 404, "Exam not found")
           ELSE IF exams[examId].status = "COMPLETED"
           THEN Respond(p, l, 400, "Exam already submitted")
           ELSE LET objective == exams[examId].examType \in {"READING", "LISTENING"}
                    band == calculateBandScore(Percentage(correctCount(sheet),
                                                          totalQuestions(sheet)))
                IN  Goto(p, [l EXCEPT !.answers = sheet,
                                      !.score = IF objective THEN band ELSE NoScore,
                                      !.subScores = IF objective
                                                    THEN <<correctCount(sheet),
                                                           totalQuestions(sheet)>>
                                                    ELSE <<>>],
                         "sb_update")
    /\ UNCHANGED <<credits, ledger, exams, published, reversalCalls, reversalsOk, credited>>

\* Mutant of SubmitLoad: the handler does not look at the session's status.
SubmitLoad_NoStatusCheck(p, caller, examId, sheet) ==
    /\ CanStart(p)
    /\ requests' = requests + 1
    /\ LET l == [NoLoc EXCEPT !.handler = "submitExam", !.caller = caller,
                              !.examId = examId]
       IN  IF examId \notin 1..Len(exams)
           THEN Respond(p, l, 404, "Exam not found")
           ELSE IF exams[examId].userId # caller
           THEN Respond(p, l, 403, "Forbidden: You do not own this exam")
           ELSE LET objective == exams[examId].examType \in {"READING", "LISTENING"}
                    band == calculateBandScore(Percentage(correctCount(sheet),
                                                          totalQuestions(sheet)))
                IN  Goto(p, [l EXCEPT !.answers = sheet,
                                      !.score = IF objective THEN band ELSE NoScore,
                                      !.subScores = IF objective
                                                    THEN <<correctCount(sheet),
                                                           totalQuestions(sheet)>>
                                                    ELSE <<>>],
                         "sb_update")
    /\ UNCHANGED <<credits, ledger, exams, published, reversalCalls, reversalsOk, credited>>

\* POST /api/exam/submit up to its update: load the session, check that it
\* exists, is the caller's and is not COMPLETED, fetch the questions the
\* answers name and score them; a WRITING or SPEAKING session gets no score.
SubmitLoad(p, caller, examId, sheet) ==
    /\ CanStart(p)
    /\ requests' = requests + 1
    /\ LET l == [NoLoc EXCEPT !.handler = "submitExam", !.caller = caller,
                              !.examId = examId]
       IN  IF examId \notin 1..Len(exams)
           THEN Respond(p, l, 404, "Exam not found")
           ELSE IF exams[examId].userId # caller
           THEN Respond(p, l, 403, "Forbidden: You do not own this exam")
           ELSE IF exams[examId].status = "COMPLETED"
           THEN Respond(p, l, 400, "Exam already submitted")
           ELSE LET objective == exams[examId].examType \in {"READING", "LISTENING"}
                    band == calculateBandScore(Percentage(correctCount(sheet),
                                                          totalQuestions(sheet)))
                IN  Goto(p, [l EXCEPT !.answers = sheet,
                                      !.score = IF objective THEN band ELSE NoScore,
                                      !.subScores = IF objective
                                                    THEN <<correctCount(sheet),
                                                           totalQuestions(sheet)>>
                                                    ELSE <<>>],
                         "sb_update")
    /\ UNCHANGED <<credits, ledger, exams, published, reversalCalls, reversalsOk, credited>>

\* POST /api/exam/submit: the update and the response.
SubmitUpdate(p) ==
    /\ pc[p] = "sb_update"
    /\ exams' = CompleteExam(loc[p])
    /\ Respond(p, loc[p], 200, "")
    /\ UNCHANGED <<credits, ledger, published, requests, reversalCalls, reversalsOk,
                   credited>>

\* POST /api/exam/writing/submit up to the grading call: the same checks, and
\* the session must be a WRITING one.  Its prompt is in the session's data.
WritingLoad(p, caller, examId, essay) ==
    /\ CanStart(p)
    /\ requests' = requests + 1
    /\ LET l == [NoLoc EXCEPT !.handler = "submitWriting", !.caller = caller,
                              !.examId = examId]
       IN  IF examId \notin 1..Len(exams)
           THEN Respond(p, l, 404, "Exam not found")
           ELSE IF exams[examId].userId # caller
           THEN Respond(p, l, 403, "Forbidden: You do not own this exam")
           ELSE IF exams[examId].status = "COMPLETED"
           THEN Respond(p, l, 400, "Exam already submitted")
           ELSE IF exams[examId].examType # "WRITING"
           THEN Respond(p, l, 400, "Invalid exam type")
           ELSE Goto(p, [l EXCEPT !.answers = essay], "ws_grade")
    /\ UNCHANGED <<credits, ledger, exams, published, reversalCalls, reversalsOk, credited>>

\* Mutant of WritingGrade: a failure of the grading collaborator is returned
\* to the client.
WritingGrade_NoFallback(p) ==
    /\ pc[p] = "ws_grade"
    /\ LET l == loc[p]
           words == wordCount(l.answers)
       IN  \/ \E sc \in AiScores :
                 Goto(p, [l EXCEPT !.score = sc, !.subScores = <<sc, words>>,
                                   !.grading = "ok"], "ws_update")
           \/ Respond(p, [l EXCEPT !.grading = "failed"], 500, "Internal server error")
    /\ UNCHANGED <<credits, ledger, exams, published, requests, reversalCalls, reversalsOk,
                   credited>>

\* gradeWritingEssayWithFallback: the collaborator answers with a score, or
\* it fails and the catch block estimates one from the number of words.
WritingGrade(p) ==
    /\ pc[p] = "ws_grade"
    /\ LET l == loc[p]
           words == wordCount(l.answers)
           fallback == WritingFallbackScore(PromptTaskType(exams[l.examId].content), words)
       IN  \/ \E sc \in AiScores :
                 Goto(p, [l EXCEPT !.score = sc, !.subScores = <<sc, words>>,
                                   !.grading = "ok"], "ws_update")
           \/ Goto(p, [l EXCEPT !.score = fallback, !.subScores = <<fallback, words>>,
                                !.grading = "failed"], "ws_update")
    /\ UNCHANGED <<credits, ledger, exams, published, requests, reversalCalls, reversalsOk,
                   credited>>

\* POST /api/exam/writing/submit: the update and the response.
WritingUpdate(p) ==
    /\ pc[p] = "ws_update"
    /\ exams' = CompleteExam(loc[p])
    /\ Respond(p, loc[p], 200, "")
    /\ UNCHANGED <<credits, ledger, published, requests, reversalCalls, reversalsOk,
                   credited>>

\* POST /api/exam/speaking/submit up to the grading call: the same checks, the
\* session must be a SPEAKING one with three questions, and the recordings
\* are saved to disk.
SpeakingLoad(p, caller, examId, recording) ==
    /\ CanStart(p)
    /\ requests' = requests + 1
    /\ LET l == [NoLoc EXCEPT !.handler = "submitSpeaking", !.caller = caller,
                              !.examId = examId]
       IN  IF examId \notin 1..Len(exams)
           THEN Respond(p, l, 404, "Exam not found")
           ELSE IF exams[examId].userId # caller
           THEN Respond(p, l, 403, "Forbidden: You do not own this exam")
           ELSE IF exams[examId].status = "COMPLETED"
           THEN Respond(p, l, 400, "Exam already submitted")
           ELSE IF exams[examId].examType # "SPEAKING"
           THEN Respond(p, l, 400, "Invalid exam type")
           ELSE IF Cardinality(exams[examId].content) # 3
           THEN Respond(p, l, 400, "Invalid speaking exam data")
           ELSE Goto(p, [l EXCEPT !.answers = recording], "sp_grade")
    /\ UNCHANGED <<credits, ledger, exams, published, reversalCalls, reversalsOk, credited>>

\* The try block of the speaking handler: with a recording,
\* evaluateSpeakingWithFallback, in which the collaborator answers with a
\* score or fails and the fallback result is returned; without one, the
\* handler's own catch block sets the fallback result.
SpeakingGrade(p) ==
    /\ pc[p] = "sp_grade"
    /\ LET l == loc[p]
           saved == IF l.answers = "audio_all" THEN 3 ELSE 0
           fallback == SpeakingFallbackScore
       IN  IF l.answers # "audio_none"
           THEN \/ \E sc \in AiScores :
                      Goto(p, [l EXCEPT !.score = sc, !.subScores = <<sc, saved>>,
                                        !.grading = "ok"], "sp_update")
                \/ Goto(p, [l EXCEPT !.score = fallback, !.subScores = <<fallback, saved>>,
                                     !.grading = "failed"], "sp_update")
           ELSE Goto(p, [l EXCEPT !.score = fallback, !.subScores = <<fallback, saved>>,
                                  !.grading = "skipped"], "sp_update")
    /\ UNCHANGED <<credits, ledger, exams, published, requests, reversalCalls, reversalsOk,
                   credited>>

\* POST /api/exam/speaking/submit: the update and the response.
SpeakingUpdate(p) ==
    /\ pc[p] = "sp_update"
    /\ exams' = CompleteExam(loc[p])
    /\ Respond(p, loc[p], 200, "")
    /\ UNCHANGED <<credits, ledger, published, requests, reversalCalls, reversalsOk,
                   credited>>

\* The runs of the submit endpoints start with one session IN_PROGRESS, of
\* any of three types, that u1 started with one of the five credits bought
\* with pi_abc.
InitSubmit ==
    /\ \E type \in {"READING", "WRITING", "SPEAKING"} :
          LET e == CHOOSE ev \in Events : ev.payment_intent = "pi_abc" /\ ev.userId = "u1"
              bought == [NoLoc EXCEPT !.event = e, !.pack = getCreditPackById(e.packId)]
              started == [NoLoc EXCEPT !.caller = e.userId, !.examType = type]
              sel == CHOOSE x \in { {c.id : c \in {d \in ContentItems : d.kind = type}} } : TRUE
          IN  /\ ledger = <<PurchaseEntry(bought), UsageEntry(started)>>
              /\ exams = <<NewExam(e.userId, type, sel)>>
              /\ credits = [u \in Users |-> IF u = e.userId THEN bought.pack.credits - 1 ELSE 0]
              /\ credited = [r \in Refs |-> IF r = e.payment_intent THEN bought.pack.credits
                                            ELSE 0]
    /\ published = ContentItems
    /\ pc = [p \in Procs |-> "idle"]
    /\ loc = [p \in Procs |-> NoLoc]
    /\ requests = 0
    /\ reversalCalls = [r \in Refs |-> 0]
    /\ reversalsOk = [r \in Refs |-> 0]
    /\ call = NoCall
    /\ RateIdle
    /\ NoSessions

NextSubmit ==
    \/ \E p \in Procs, u \in Users, id \in 1..(Len(exams) + 1), sheet \in Sheets :
          SubmitLoad(p, u, id, sheet)
    \/ \E p \in Procs : SubmitUpdate(p)
    \/ \E p \in Procs, u \in Users, id \in 1..(Len(exams) + 1), essay \in Essays :
          WritingLoad(p, u, id, essay)
    \/ \E p \in Procs : WritingGrade(p)
    \/ \E p \in Procs : WritingUpdate(p)
    \/ \E p \in Procs, u \in Users, id \in 1..(Len(exams) + 1), rec \in Recordings :
          SpeakingLoad(p, u, id, rec)
    \/ \E p \in Procs : SpeakingGrade(p)
    \/ \E p \in Procs : SpeakingUpdate(p)

SpecSubmit == InitSubmit /\ [][NextSubmit]_vars

----------------------------------------------------------------------------
(* Helpers of the properties *)

PurchaseEntries(ref) == {i \in EntriesByRef(ref) : ledger[i].type = "PURCHASE"}

\* The events the webhook does not drop.
ValidEvents ==
    {e \in Events : /\ e.type = "checkout.session.completed"
                    /\ e.userId # "" /\ e.packId # "" /\ e.payment_intent # ""
                    /\ getCreditPackById(e.packId) # NoPack}

Finished(p, handler) == pc[p] = "done" /\ loc[p].handler = handler

StoreUnchanged == credits' = credits /\ ledger' = ledger /\ exams' = exams

----------------------------------------------------------------------------
(* C1..C10: ledger, reconciliation and refund *)

\* C1: for every user, in every reachable state (also between two separate
\* store writes of one request), the credits balance equals the sum of the
\* amounts of the user's ledger entries.
C1_BalanceEqualsLedgerSum ==
    \A u \in Users : credits[u] = SumAmounts(u, ledger)

\* C2: however many deliveries of a checkout-completed event race, the
\* balance is increased by the pack's credits exactly once and exactly one
\* PURCHASE entry with the payment reference exists, as soon as one delivery
\* has finished; before that, nothing is credited more than once.
C2_CreditedExactlyOnce ==
    \A e \in ValidEvents :
        LET r == e.payment_intent
            n == getCreditPackById(e.packId).credits
        IN  /\ Cardinality(PurchaseEntries(r)) <= 1
            /\ credited[r] = n * Cardinality(PurchaseEntries(r))
            /\ \A i \in PurchaseEntries(r) : ledger[i].amount = n /\ ledger[i].userId = e.userId
            /\ (\E p \in Procs : Finished(p, "webhook") /\ loc[p].event = e)
                  => (Cardinality(PurchaseEntries(r)) = 1 /\ credited[r] = n)

\* C2 witness: two deliveries of the same event both passed the existence
\* check, both ran their transaction, and both have finished.
C2_Witness ==
    \E p, q \in Procs :
        /\ p # q
        /\ Finished(p, "webhook") /\ Finished(q, "webhook")
        /\ loc[p].event = loc[q].event
        /\ loc[p].pack # NoPack /\ loc[q].pack # NoPack
        /\ credited[loc[p].event.payment_intent] = loc[p].pack.credits

\* C3: a delivery that arrives after the payment reference was credited
\* returns success in its first step and changes neither the ledger, the
\* balances nor the exam sessions.
C3_ReplayIsNoOp ==
    [][\A p \in Procs, e \in ValidEvents :
          (WebhookReceive(p, e) /\ credited[e.payment_intent] > 0)
             => /\ StoreUnchanged
                /\ credited' = credited
                /\ pc'[p] = "done"
                /\ loc'[p].status = 200]_vars

\* C3 witness: a delivery has finished as a replay of a credited payment.
C3_Witness ==
    \E p \in Procs :
        /\ Finished(p, "webhook")
        /\ loc[p].error = "already processed"
        /\ loc[p].status = 200
        /\ credited[loc[p].event.payment_intent] > 0

\* C4: every webhook invocation finishes with a success outcome (HTTP 200),
\* in particular one whose payment reference is being credited by a
\* concurrent invocation.
C4_ReplayNeverAnError ==
    \A p \in Procs : Finished(p, "webhook") => loc[p].status = 200

\* C5: a refund called after an earlier refund of the same transaction had
\* its external reversal applied fails as already refunded, and the external
\* reversal was invoked exactly once.
C5_SecondRefundAlreadyRefunded ==
    \A p \in Procs :
        (Finished(p, "refund") /\ loc[p].afterReversal)
           => /\ loc[p].error = "Transaction has already been refunded"
              /\ reversalCalls[loc[p].txn.ref] = 1

\* C6: a finished refund invocation whose external reversal succeeded has
\* committed the REFUND entry.
C6_ReversalImpliesLedger ==
    \A p \in Procs :
        (Finished(p, "refund") /\ loc[p].stripe = "ok")
           => RefundEntries(loc[p].txn.ref) # {}

C8_AtMostOneReversal ==
    \A r \in Refs : reversalCalls[r] <= 1 /\ Cardinality(RefundEntries(r)) <= 1

\* C9: a refund whose external reversal succeeded ends in success with the
\* balance decrement, the REFUND entry of minus the original amount and the
\* annotation of the original entry all committed.
C9_RefundCommitsAtomically ==
    \A p \in Procs :
        (Finished(p, "refund") /\ loc[p].stripe = "ok")
           => /\ loc[p].status = 200
              /\ ledger[loc[p].tid].reason = loc[p].txn.reason \o " - REFUNDED"
              /\ \E i \in RefundEntries(loc[p].txn.ref) :
                    /\ ledger[i].amount = -loc[p].txn.amount
                    /\ ledger[i].userId = loc[p].txn.userId

----------------------------------------------------------------------------
(* C11..C13: exam start *)

UsageEntriesOf(u) == {i \in 1..Len(ledger) : ledger[i].userId = u /\ ledger[i].type = "USAGE"}

ExamsOf(u) == {i \in 1..Len(exams) : exams[i].userId = u}

\* C11: an exam start that finds no published content of the requested type
\* answers 503 and has, in all, added nothing to and taken nothing from the
\* caller's credits: the balance is what it was before the call.
C11_FailedStartLeavesBalance ==
    \A p \in Procs :
        (Finished(p, "startExam") /\ loc[p].status = 503) => loc[p].net = 0

\* C12: an exam start by a user whose credits are below 1 answers 402 at once
\* and writes nothing: credits, ledger and exam sessions stay as they were.
C12_InsufficientCreditsChangesNothing ==
    [][\A p \in Procs, u \in Users, t \in ExamTypes :
          (StartCheck(p, u, t) /\ credits[u] < 1)
              => /\ StoreUnchanged
                 /\ pc'[p] = "done"
                 /\ loc'[p].status = 402
                 /\ loc'[p].error = "Insufficient credits"]_vars

\* An exam start was refused with 402 while another user holds credits.
C12_Witness ==
    \E p \in Procs :
        /\ Finished(p, "startExam") /\ loc[p].status = 402
        /\ credits[loc[p].caller] < 1
        /\ \E u \in Users : credits[u] >= 1

\* C13: in every reachable state each user has as many USAGE entries as exam
\* sessions: the decrement, the USAGE entry and the session commit together
\* or not at all.
C13_UsageEntriesMatchSessions ==
    \A u \in Users : Cardinality(UsageEntriesOf(u)) = Cardinality(ExamsOf(u))

\* A user has started an exam and has also had a start fail for want of
\* published content.
C13_Witness ==
    \E p \in Procs :
        /\ Finished(p, "startExam") /\ loc[p].status = 503
        /\ ExamsOf(loc[p].caller) # {}
        /\ UsageEntriesOf(loc[p].caller) # {}

----------------------------------------------------------------------------
(* C14..C17: exam submit *)

SubmitHandlers == {"submitExam", "submitWriting", "submitSpeaking"}

\* The invocation on slot p is a submit that has answered with success.
Succeeded(p) == pc[p] = "done" /\ loc[p].handler \in SubmitHandlers /\ loc[p].status = 200

\* The score the fallback gives the submission of a writing or speaking
\* invocation.
FallbackScore(l) ==
    IF l.handler = "submitWriting"
    THEN WritingFallbackScore(PromptTaskType(exams[l.examId].content), wordCount(l.answers))
    ELSE SpeakingFallbackScore

\* C14: whatever the interleaving of the submits on one session, a session
\* that is COMPLETED is never written again, so its score, sub-scores and
\* answers stay those of the one submit that completed it.
C14_CompletedOnce ==
    [][\A i \in 1..Len(exams) : exams[i].status = "COMPLETED" => exams'[i] = exams[i]]_vars

\* A submit invocation by the owner of session i starts on slot p in this step.
SubmitArrives(p, i) ==
    /\ requests' = requests + 1
    /\ loc'[p] # loc[p] \/ pc'[p] # pc[p]
    /\ loc'[p].handler \in SubmitHandlers
    /\ loc'[p].examId = i
    /\ loc'[p].caller = exams[i].userId

\* C15: a submit that arrives when the session is already COMPLETED answers
\* 400 'Exam already submitted' and leaves the session as it is.
C15_SecondSubmitRejected ==
    [][\A p \in Procs, i \in 1..Len(exams) :
          (exams[i].status = "COMPLETED" /\ SubmitArrives(p, i))
              => /\ exams' = exams
                 /\ pc'[p] = "done"
                 /\ loc'[p].status = 400
                 /\ loc'[p].error = "Exam already submitted"]_vars

\* A submit of a COMPLETED session was rejected, and the session holds what
\* the first submit wrote.
C15_Witness ==
    \E p \in Procs, q \in Procs :
        /\ p # q
        /\ Succeeded(q)
        /\ pc[p] = "done" /\ loc[p].error = "Exam already submitted"
        /\ loc[p].examId = loc[q].examId
        /\ exams[loc[q].examId].status = "COMPLETED"
        /\ exams[loc[q].examId].score = loc[q].score
        /\ exams[loc[q].examId].answers = loc[q].answers

\* C16: every WRITING or SPEAKING session that is COMPLETED has a score.
C16_CompletedHasScore ==
    \A i \in 1..Len(exams) :
        (exams[i].examType \in {"WRITING", "SPEAKING"} /\ exams[i].status = "COMPLETED")
            => exams[i].score # NoScore

----------------------------------------------------------------------------
(* Calls of the grading functions on their own: each run makes one call of  *)
(* compareAnswers or calculateBandScore on arguments drawn from the pools   *)
(* below.                                                                    *)

StringPool ==
    {Str_paris, Str_Paris, Str_Paris_padded, Str_france, Str_France,
     Str_true, Str_TRUE, Str_true_padded, Str_false, Str_1}

ArrayPool ==
    UNION { [1..k -> {Str_paris, Str_Paris, Str_france, Str_France}] : k \in 1..MaxArrayLen }

AnswerValues ==
    {JsNull, JsUndefined, JsObject, JsNum(1), JsBool(TRUE), JsBool(FALSE)}
        \cup {JsStr(str) : str \in StringPool}
        \cup {JsArr(a) : a \in ArrayPool}

\* The whole percentages, and the fractions of up to MaxQuestions questions.
Percentages ==
    {[n |-> k, d |-> 1] : k \in 0..100}
        \cup {Percentage(c, t) : c \in 0..MaxQuestions, t \in 1..MaxQuestions}

InitGrading ==
    /\ credits = [u \in Users |-> 0]
    /\ ledger = <<>>
    /\ exams = <<>>
    /\ published = ContentItems
    /\ pc = [p \in Procs |-> "idle"]
    /\ loc = [p \in Procs |-> NoLoc]
    /\ requests = 0
    /\ reversalCalls = [r \in Refs |-> 0]
    /\ reversalsOk = [r \in Refs |-> 0]
    /\ credited = [r \in Refs |-> 0]
    /\ \/ \E u \in AnswerValues, c \in AnswerValues :
             call = [NoCall EXCEPT !.fn = "compareAnswers", !.userAnswer = u,
                                   !.correctAnswer = c]
       \/ \E pct \in Percentages :
             call = [NoCall EXCEPT !.fn = "calculateBandScore", !.percentage = pct]
    /\ RateIdle
    /\ NoSessions

CallCompareAnswers ==
    /\ call.fn = "compareAnswers" /\ ~call.done
    /\ call' = [call EXCEPT !.done = TRUE,
                            !.verdict = compareAnswers(call.userAnswer, call.correctAnswer)]
    /\ UNCHANGED <<credits, ledger, exams, published, pc, loc, requests,
                   reversalCalls, reversalsOk, credited,
                   rateLimitStore, now, rateResult, granted, sessions, issued>>

CallCalculateBandScore ==
    /\ call.fn = "calculateBandScore" /\ ~call.done
    /\ call' = [call EXCEPT !.done = TRUE, !.band = calculateBandScore(call.percentage)]
    /\ UNCHANGED <<credits, ledger, exams, published, pc, loc, requests,
                   reversalCalls, reversalsOk, credited,
                   rateLimitStore, now, rateResult, granted, sessions, issued>>

NextGrading ==
    \/ CallCompareAnswers
    \/ CallCalculateBandScore

SpecGrading == InitGrading /\ [][NextGrading]_vars

Compared == call.fn = "compareAnswers" /\ call.done

\* The strings of an array, lower-cased, as a set.
LowerSet(a) == {toLowerCase(a[i]) : i \in 1..Len(a)}

\* The band the table gives: 0 for 0 percent, 9 for 100 percent, and between
\* them 4 for the first decile and half a band more for each further one.
BandTable == <<40, 45, 50, 55, 60, 65, 70, 75, 80, 85>>

TableBand(percentage) ==
    IF percentage.n = 0 THEN 0
    ELSE IF percentage.n >= 100 * percentage.d THEN 90
    ELSE BandTable[((percentage.n \div percentage.d) \div 10) + 1]

PercentLeq(p1, p2) == p1.n * p2.d <= p2.n * p1.d

----------------------------------------------------------------------------
(* C18..C20: grading of the objective exam types *)

\* C18: an array submitted for an array answer is judged correct exactly when
\* the two hold the same strings as sets, whatever their order and letter
\* case (so ["France","Paris"] is correct for ["paris","france"]).
C18_ArrayComparedAsSet ==
    (Compared /\ call.userAnswer.t = "array" /\ call.correctAnswer.t = "array")
        => (call.verdict <=> LowerSet(call.userAnswer.a) = LowerSet(call.correctAnswer.a))

----------------------------------------------------------------------------
(* C21..C27: ledger, refund, submit and exam start, continued *)

RefundArrives(p) ==
    /\ requests' = requests + 1
    /\ loc'[p] # loc[p] \/ pc'[p] # pc[p]
    /\ loc'[p].handler = "refund"

\* C22: a refund by a caller who is not an admin answers 403, one of an
\* unknown transaction 404, one of an entry that is not a PURCHASE or has no
\* payment reference 400; each answers in its first step, with no call of
\* the processor and with credits and ledger unchanged.
C22_RefundPreconditions ==
    [][\A p \in Procs :
          RefundArrives(p) =>
              LET caller == loc'[p].caller
                  tid == loc'[p].tid
                  expected ==
                      IF Role(caller) # "ADMIN" THEN 403
                      ELSE IF tid \notin 1..Len(ledger) THEN 404
                      ELSE IF ledger[tid].type # "PURCHASE" \/ ledger[tid].ref = NoRef THEN 400
                      ELSE 0
              IN  /\ StoreUnchanged
                  /\ reversalCalls' = reversalCalls
                  /\ expected # 0 => (pc'[p] = "done" /\ loc'[p].status = expected)
                  /\ expected = 0 => pc'[p] # "done"]_vars

\* An admin's refund of a USAGE entry was rejected with 400.
C22_Witness ==
    \E p \in Procs :
        /\ Finished(p, "refund") /\ loc[p].status = 400
        /\ Role(loc[p].caller) = "ADMIN"
        /\ loc[p].tid \in 1..Len(ledger)
        /\ ledger[loc[p].tid].type = "USAGE"

\* C24: every SPEAKING session holds three questions, a published one of each
\* of the parts 1, 2 and 3; while some part has no published question there
\* is no SPEAKING session, and a start of a SPEAKING exam that has run its
\* transaction is on the content-unavailable path, which ends with 503.
C24_SpeakingOnePerPart ==
    /\ \A i \in 1..Len(exams) :
          exams[i].examType = "SPEAKING"
             => /\ Cardinality(exams[i].content) = 3
                /\ \A part \in 1..3 :
                      Cardinality({c \in published : /\ c.kind = "SPEAKING" /\ c.part = part
                                                     /\ c.id \in exams[i].content}) = 1
    /\ (\E part \in 1..3 : PublishedOf("SPEAKING", part) = {})
          => \A p \in Procs :
                (loc[p].handler = "startExam" /\ loc[p].examType = "SPEAKING")
                   => \/ pc[p] \in {"se_tx", "se_restore_credit", "se_restore_ledger"}
                      \/ pc[p] = "done" /\ loc[p].status \in {402, 503}

\* A start of a SPEAKING exam has created its session.
C24_Witness ==
    \E p \in Procs :
        /\ Finished(p, "startExam") /\ loc[p].examType = "SPEAKING" /\ loc[p].status = 201
        /\ \E i \in 1..Len(exams) : exams[i].examType = "SPEAKING"

\* A webhook delivery starts on slot p in this step.
WebhookArrives(p) ==
    /\ requests' = requests + 1
    /\ loc'[p] # loc[p] \/ pc'[p] # pc[p]
    /\ loc'[p].handler = "webhook"

AnySubmitArrives(p) ==
    /\ requests' = requests + 1
    /\ loc'[p] # loc[p] \/ pc'[p] # pc[p]
    /\ loc'[p].handler \in SubmitHandlers

\* C23: a submit of an unknown session answers 404 and one by a user who is
\* not the session's owner answers 403, both in their first step and with
\* the exam sessions unchanged; every step that changes a session is the
\* last step of a submit invocation of that session's owner.
C23_OnlyOwnerSubmits ==
    [][/\ \A p \in Procs :
             AnySubmitArrives(p) =>
                 LET id == loc'[p].examId
                 IN  /\ exams' = exams
                     /\ id \notin 1..Len(exams)
                           => (pc'[p] = "done" /\ loc'[p].status = 404)
                     /\ (id \in 1..Len(exams) /\ exams[id].userId # loc'[p].caller)
                           => (pc'[p] = "done" /\ loc'[p].status = 403)
       /\ \A i \in 1..Len(exams) :
             exams'[i] # exams[i]
                => \E p \in Procs :
                      /\ loc[p].handler \in SubmitHandlers
                      /\ loc[p].examId = i
                      /\ loc[p].caller = exams[i].userId
                      /\ pc[p] # "done" /\ pc'[p] = "done"]_vars

\* A submit by a user who is not the owner was rejected with 403, and the
\* owner's submit has completed the session.
C23_Witness ==
    \E p, q \in Procs :
        /\ pc[p] = "done" /\ loc[p].handler \in SubmitHandlers /\ loc[p].status = 403
        /\ loc[p].examId \in 1..Len(exams)
        /\ exams[loc[p].examId].userId # loc[p].caller
        /\ Succeeded(q) /\ loc[q].examId = loc[p].examId
        /\ exams[loc[p].examId].status = "COMPLETED"

----------------------------------------------------------------------------
(* C28: the fraction correct of a READING or LISTENING submit *)

\* The questions of the passage rp1, the content of the READING session.
SessionQuestions == {"q1", "q2", "q3", "q4"}

\* The number of the session's questions that the sheet answers correctly.
correctOfSession(sheet) ==
    Cardinality({e \in SheetAnswers(sheet) :
                    e.q \in SessionQuestions /\ compareAnswers(e.a, QuestionBank[e.q])})

\* C28: the score of a completed READING or LISTENING session is the band of
\* the fraction of all the questions of its content that the stored answer
\* sheet answers correctly, so a question left out counts as a wrong one.
C28_UnansweredCountsAsIncorrect ==
    \A i \in 1..Len(exams) :
        (/\ exams[i].examType \in {"READING", "LISTENING"}
         /\ exams[i].status = "COMPLETED"
         /\ exams[i].answers \in Sheets)
            => exams[i].score =
                  calculateBandScore(Percentage(correctOfSession(exams[i].answers),
                                                Cardinality(SessionQuestions)))

----------------------------------------------------------------------------
(* C25, C26: exam starts of a user with one credit left *)

\* u2 has bought pack_a with payment pi_xyz and has started one READING exam,
\* so one credit is left.
InitStart ==
    /\ LET e == CHOOSE ev \in Events : ev.payment_intent = "pi_xyz" /\ ev.userId = "u2"
           bought == [NoLoc EXCEPT !.event = e, !.pack = getCreditPackById(e.packId)]
           started == [NoLoc EXCEPT !.caller = e.userId, !.examType = "READING"]
       IN  /\ ledger = <<PurchaseEntry(bought), UsageEntry(started)>>
           /\ exams = <<NewExam(e.userId, "READING", {"rp1"})>>
           /\ credits = [u \in Users |-> IF u = e.userId THEN bought.pack.credits - 1 ELSE 0]
           /\ credited = [r \in Refs |-> IF r = e.payment_intent THEN bought.pack.credits
                                         ELSE 0]
    /\ published \in Catalogues
    /\ pc = [p \in Procs |-> "idle"]
    /\ loc = [p \in Procs |-> NoLoc]
    /\ requests = 0
    /\ reversalCalls = [r \in Refs |-> 0]
    /\ reversalsOk = [r \in Refs |-> 0]
    /\ call = NoCall
    /\ RateIdle
    /\ NoSessions

SpecStart == InitStart /\ [][Next]_vars

\* C25: a step that creates an exam session finds at least one credit on the
\* balance of the session's user, the one it deducts.
C25_SessionNeedsCredit ==
    [][Len(exams') > Len(exams) => credits[exams'[Len(exams')].userId] >= 1]_vars

\* C26: no user's balance is negative.
C26_BalanceNonNegative == \A u \in Users : credits[u] >= 0

----------------------------------------------------------------------------
(* Rate limiting: rateLimit of lib/auth/rate-limit.ts *)

MaxTime == 120000

\* The time that passes between two looks at the clock.
TickSteps == {30000, 30001}

RATE_LIMITS ==
    [LOGIN |-> [maxRequests |-> 10, windowMs |-> 60 * 1000],
     PASSWORD_RESET |-> [maxRequests |-> 3, windowMs |-> 60 * 1000]]

\* The limits the handlers pass for an identifier.
LimitOf(identifier) ==
    IF identifier = "login:ip1:a@x" THEN RATE_LIMITS.LOGIN ELSE RATE_LIMITS.PASSWORD_RESET

\* Mutant of rateLimit: the limit is compared with > instead of >=.
rateLimit_OffByOne(store, t, identifier, maxRequests, windowMs) ==
    LET entry == store[identifier]
        cleaned == IF entry # NoEntry /\ t > entry.resetTime
                   THEN [store EXCEPT ![identifier] = NoEntry]
                   ELSE store
        currentEntry == cleaned[identifier]
    IN  IF currentEntry = NoEntry
        THEN [store |-> [cleaned EXCEPT ![identifier] =
                             [count |-> 1, resetTime |-> t + windowMs]],
              result |-> [identifier |-> identifier, success |-> TRUE,
                          remaining |-> maxRequests - 1, resetTime |-> t + windowMs]]
        ELSE IF currentEntry.count > maxRequests
        THEN [store |-> cleaned,
              result |-> [identifier |-> identifier, success |-> FALSE, remaining |-> 0,
                          resetTime |-> currentEntry.resetTime]]
        ELSE [store |-> [cleaned EXCEPT ![identifier].count = @ + 1],
              result |-> [identifier |-> identifier, success |-> TRUE,
                          remaining |-> maxRequests - (currentEntry.count + 1),
                          resetTime |-> currentEntry.resetTime]]

\* rateLimit(identifier, maxRequests, windowMs) called at time t on the map
\* store: the map it leaves and the value it returns.
rateLimit(store, t, identifier, maxRequests, windowMs) ==
    LET entry == store[identifier]
        cleaned == IF entry # NoEntry /\ t > entry.resetTime
                   THEN [store EXCEPT ![identifier] = NoEntry]
                   ELSE store
        currentEntry == cleaned[identifier]
    IN  IF currentEntry = NoEntry
        THEN [store |-> [cleaned EXCEPT ![identifier] =
                             [count |-> 1, resetTime |-> t + windowMs]],
              result |-> [identifier |-> identifier, success |-> TRUE,
                          remaining |-> maxRequests - 1, resetTime |-> t + windowMs]]
        ELSE IF currentEntry.count >= maxRequests
        THEN [store |-> cleaned,
              result |-> [identifier |-> identifier, success |-> FALSE, remaining |-> 0,
                          resetTime |-> currentEntry.resetTime]]
        ELSE [store |-> [cleaned EXCEPT ![identifier].count = @ + 1],
              result |-> [identifier |-> identifier, success |-> TRUE,
                          remaining |-> maxRequests - (currentEntry.count + 1),
                          resetTime |-> currentEntry.resetTime]]

\* A handler calls rateLimit for an identifier.  granted counts the calls
\* that returned success with the same resetTime, that is in the same window.
RateLimitCall(identifier) ==
    LET limit == LimitOf(identifier)
        r == rateLimit(rateLimitStore, now, identifier, limit.maxRequests, limit.windowMs)
    IN  /\ rateLimitStore' = r.store
        /\ rateResult' = r.result
        /\ granted' =
              IF ~r.result.success THEN granted
              ELSE IF granted[identifier].resetTime = r.result.resetTime
              THEN [granted EXCEPT ![identifier].n = @ + 1]
              ELSE [granted EXCEPT ![identifier] =
                        [resetTime |-> r.result.resetTime, n |-> 1]]
        /\ UNCHANGED <<credits, ledger, exams, published, pc, loc, requests,
                       reversalCalls, reversalsOk, credited, call, now, sessions, issued>>

\* Time passes.
Tick ==
    /\ \E d \in TickSteps : now + d <= MaxTime /\ now' = now + d
    /\ UNCHANGED <<credits, ledger, exams, published, pc, loc, requests,
                   reversalCalls, reversalsOk, credited, call, rateLimitStore,
                   rateResult, granted, sessions, issued>>

InitRateLimit ==
    /\ credits = [u \in Users |-> 0]
    /\ ledger = <<>>
    /\ exams = <<>>
    /\ published = ContentItems
    /\ pc = [p \in Procs |-> "idle"]
    /\ loc = [p \in Procs |-> NoLoc]
    /\ requests = 0
    /\ reversalCalls = [r \in Refs |-> 0]
    /\ reversalsOk = [r \in Refs |-> 0]
    /\ credited = [r \in Refs |-> 0]
    /\ call = NoCall
    /\ RateIdle
    /\ NoSessions

NextRateLimit ==
    \/ \E identifier \in Identifiers : RateLimitCall(identifier)
    \/ Tick

SpecRateLimit == InitRateLimit /\ [][NextRateLimit]_vars

\* C29: of the calls of rateLimit for an identifier that return the same
\* resetTime at most maxRequests return success; a call made no later than
\* the resetTime of a window that has had maxRequests successes returns
\* success = false and remaining = 0 and leaves the map as it is; a call
\* made after the resetTime of the identifier's window, or when it has none,
\* opens a window that ends windowMs later and returns success with
\* remaining = maxRequests - 1; remaining is never negative.
C29_RateLimitWindow ==
    [][\A i \in Identifiers :
          RateLimitCall(i) =>
              LET entry == rateLimitStore[i]
                  limit == LimitOf(i)
              IN  /\ granted'[i].n <= limit.maxRequests
                  /\ rateResult'.remaining >= 0
                  /\ (entry # NoEntry /\ now <= entry.resetTime
                                       /\ entry.count >= limit.maxRequests)
                        => /\ rateResult' = [identifier |-> i, success |-> FALSE,
                                              remaining |-> 0, resetTime |-> entry.resetTime]
                           /\ rateLimitStore' = rateLimitStore
                  /\ (entry # NoEntry /\ now <= entry.resetTime
                                       /\ entry.count < limit.maxRequests)
                        => /\ rateResult'.success
                           /\ rateResult'.resetTime = entry.resetTime
                           /\ rateResult'.remaining = limit.maxRequests - entry.count - 1
                  /\ (entry = NoEntry \/ now > entry.resetTime)
                        => /\ rateResult' = [identifier |-> i, success |-> TRUE,
                                              remaining |-> limit.maxRequests - 1,
                                              resetTime |-> now + limit.windowMs]
                           /\ rateLimitStore'[i] = [count |-> 1,
                                                    resetTime |-> now + limit.windowMs]
                  /\ \A j \in Identifiers \ {i} : rateLimitStore'[j] = rateLimitStore[j]]_vars

\* The first window of the forgot-password identifier is over and the last
\* call has opened its next one, while the window of the login identifier
\* has had its ten successes.
C29_Witness ==
    LET i == "forgot-password:ip1:a@x"
    IN  /\ rateResult = [identifier |-> i, success |-> TRUE,
                         remaining |-> RATE_LIMITS.PASSWORD_RESET.maxRequests - 1,
                         resetTime |-> now + RATE_LIMITS.PASSWORD_RESET.windowMs]
        /\ now > RATE_LIMITS.PASSWORD_RESET.windowMs
        /\ granted[i].n = 1
        /\ rateLimitStore["login:ip1:a@x"].count = RATE_LIMITS.LOGIN.maxRequests

----------------------------------------------------------------------------
(* Refresh-token rotation: POST /api/auth/refresh *)

\* Refresh tokens are named by the order in which they were signed; 0 is a
\* string that verifyRefreshToken rejects.
verifyRefreshToken(token) == token \in 1..issued

\* db.session.findUnique({ where: { refreshToken } }): the ids of the rows
\* with this refresh token.
SessionsByToken(token) ==
    {s \in SessionIds : sessions[s] # NoSession /\ sessions[s].refreshToken = token}

\* The request arrives: the token is verified, the session is looked up by
\* it and its expiry is checked.
RefreshLoad(p, token) ==
    /\ CanStart(p)
    /\ requests' = requests + 1
    /\ LET l == [NoLoc EXCEPT !.handler = "refresh", !.refreshToken = token]
       IN  IF ~verifyRefreshToken(token)
           THEN Respond(p, l, 401, "Invalid or expired refresh token")
           ELSE IF SessionsByToken(token) = {}
           THEN Respond(p, l, 404, "Session not found")
           ELSE LET s == CHOOSE x \in SessionsByToken(token) : TRUE
                IN  IF sessions[s].expired
                    THEN Goto(p, [l EXCEPT !.sessionId = s], "rt_delete")
                    ELSE Goto(p, [l EXCEPT !.sessionId = s], "rt_update")
    /\ UNCHANGED <<credits, ledger, exams, published, reversalCalls, reversalsOk, credited>>

\* db.session.delete({ where: { id } }) of an expired session; the delete of
\* a row that is gone throws and POST's catch answers 500.
RefreshDelete(p) ==
    /\ pc[p] = "rt_delete"
    /\ pc' = [pc EXCEPT ![p] = "done"]
    /\ LET l == loc[p]
       IN  IF sessions[l.sessionId] # NoSession
           THEN /\ sessions' = [sessions EXCEPT ![l.sessionId] = NoSession]
                /\ loc' = [loc EXCEPT ![p] = [l EXCEPT !.status = 401,
                                                        !.error = "Session expired"]]
           ELSE /\ UNCHANGED sessions
                /\ loc' = [loc EXCEPT ![p] = [l EXCEPT !.status = 500,
                                                        !.error = "Internal server error"]]
    /\ UNCHANGED <<credits, ledger, exams, published, requests, reversalCalls, reversalsOk,
                   credited, call, rateLimitStore, now, rateResult, granted, issued>>

\* signRefreshToken, db.session.update({ where: { id }, data: { refreshToken,
\* expiresAt } }) and the response with the new tokens.
RefreshUpdate(p) ==
    /\ pc[p] = "rt_update"
    /\ pc' = [pc EXCEPT ![p] = "done"]
    /\ issued' = issued + 1
    /\ LET l == [loc[p] EXCEPT !.newRefreshToken = issued + 1]
       IN  IF sessions[l.sessionId] # NoSession
           THEN /\ sessions' = [sessions EXCEPT ![l.sessionId] =
                                    [@ EXCEPT !.refreshToken = l.newRefreshToken,
                                              !.expired = FALSE]]
                /\ loc' = [loc EXCEPT ![p] = [l EXCEPT !.status = 200]]
           ELSE /\ UNCHANGED sessions
                /\ loc' = [loc EXCEPT ![p] = [l EXCEPT !.status = 500,
                                                        !.error = "Internal server error"]]
    /\ UNCHANGED <<credits, ledger, exams, published, requests, reversalCalls, reversalsOk,
                   credited, call, rateLimitStore, now, rateResult, granted>>

\* Time passes beyond the expiresAt of a session.
SessionExpires(s) ==
    /\ sessions[s] # NoSession /\ ~sessions[s].expired
    /\ sessions' = [sessions EXCEPT ![s].expired = TRUE]
    /\ UNCHANGED <<credits, ledger, exams, published, pc, loc, requests, reversalCalls,
                   reversalsOk, credited, call, rateLimitStore, now, rateResult, granted,
                   issued>>

\* u1 and u2 have logged in: each has a session with its own refresh token.
InitRefresh ==
    /\ credits = [u \in Users |-> 0]
    /\ ledger = <<>>
    /\ exams = <<>>
    /\ published = ContentItems
    /\ pc = [p \in Procs |-> "idle"]
    /\ loc = [p \in Procs |-> NoLoc]
    /\ requests = 0
    /\ reversalCalls = [r \in Refs |-> 0]
    /\ reversalsOk = [r \in Refs |-> 0]
    /\ credited = [r \in Refs |-> 0]
    /\ call = NoCall
    /\ RateIdle
    /\ sessions = [s \in SessionIds |->
                      [userId |-> IF s = 1 THEN "u1" ELSE "u2", refreshToken |-> s,
                       expired |-> FALSE]]
    /\ issued = Cardinality(SessionIds)

NextRefresh ==
    \/ \E p \in Procs, token \in 0..issued : RefreshLoad(p, token)
    \/ \E p \in Procs : RefreshDelete(p)
    \/ \E p \in Procs : RefreshUpdate(p)
    \/ \E s \in SessionIds : SessionExpires(s)

SpecRefresh == InitRefresh /\ [][NextRefresh]_vars

\* C30: no two refresh invocations that presented the same refresh token
\* have both answered with new tokens.
C30_RefreshTokenExchangedOnce ==
    \A p, q \in Procs :
        (/\ p # q
         /\ Finished(p, "refresh") /\ loc[p].status = 200
         /\ Finished(q, "refresh") /\ loc[q].status = 200)
            => loc[p].refreshToken # loc[q].refreshToken

====
